---- MODULE Spec2Model ----
(***************************************************************************)
(* chat-renderer: the temporal scheduling and scroll-buffer core.          *)
(*                                                                         *)
(*   MessageBatcher  (src/src/batcher.js)          read cursor over events *)
(*   ChatState       (src/src/chat-state.js)       visible line window     *)
(*   FrameScheduler  (src/src/frame-scheduler.js)  frame cursor            *)
(*   ChatRenderer    (src/src/chat-state.js:147)   the driving loop        *)
(*   Encoder         (src/src/encoder.js)          frames written          *)
(*                                                                         *)
(* Time.  The code computes in IEEE-754 doubles of milliseconds, with      *)
(* frameDurationMs = 1000 / FRAMERATE.  The model counts time in ticks of  *)
(* 1/FRAMERATE ms, so that one frame lasts exactly 1000 ticks and an       *)
(* integer timestamp of t ms is t * FRAMERATE ticks.  Comparisons of a     *)
(* timestamp with currentTimeMs + BATCH_WINDOW_MS and the Math.ceil of the *)
(* constructor agree with the doubles on the modelled range; Math.floor of *)
(* durationMs / frameDurationMs does not, and is corrected by the table    *)
(* FloorRoundsLow (see there).                                             *)
(***************************************************************************)
EXTENDS Integers, Sequences, FiniteSets, TLC

(***************************************************************************)
(* config (src/unnamed/part_000)                                           *)
(***************************************************************************)
OUTPUT_WIDTH == 400
FRAMERATE == 30
BATCH_WINDOW_MS == 500
BATCH_MAX_MESSAGES == 12
FONT_SIZE_PX == 16
MAX_VISIBLE_LINES == 27
HORIZONTAL_PADDING_PX == 12

(***************************************************************************)
(* Bounds of the model                                                     *)
(***************************************************************************)
\* longest list of events drawn freely (a burst may be added to it)
MaxEvents == 3
\* most messages ingested by a ChatState between two clear() calls
MaxIngested == 4
\* longest batch handed to addMessages by a direct caller
MaxBatch == 3
\* how far advance() may push the cursor past totalFrames in the model
MaxOverrun == 2
\* reset() is called only while fewer events than this were returned
MaxDelivered == 4
\* most content segments of a message whose lines are estimated
MaxSegments == 2

\* JavaScript null (nextBatchTimeMs, peekNextTimestamp)
NULL == 0 - 1

Max(a, b) == IF a >= b THEN a ELSE b
Min(a, b) == IF a <= b THEN a ELSE b

\* a time of t integer milliseconds, in ticks
Ms(t) == t * FRAMERATE

RECURSIVE SumLines(_)
SumLines(entries) ==
  IF entries = <<>> THEN 0
  ELSE Head(entries).lineCount + SumLines(Tail(entries))

Suffix(s, n) == SubSeq(s, Len(s) - n + 1, Len(s))

(***************************************************************************)
(* Messages (schema: src/src/batcher.js:13-41).  A name or a text segment  *)
(* is modelled by its length, the only thing the code reads of it.         *)
(***************************************************************************)
Text(n) == [type |-> "text", len |-> n]
Emoji == [type |-> "emoji", len |-> 0]

Message(id, ts, type, nameLen, badges, segments) ==
  [id |-> id, timestamp_ms |-> ts, type |-> type,
   author |-> [name |-> nameLen, badges |-> badges],
   content |-> [segments |-> segments]]

VARIABLES
  messages,         \* MessageBatcher.messages: the sorted input events
  currentIndex,     \* MessageBatcher.currentIndex (0-based)
  visibleMessages,  \* ChatState.visibleMessages: entries, oldest first
  totalLineCount,   \* ChatState.totalLineCount
  totalFrames,      \* FrameScheduler.totalFrames
  currentFrame,     \* FrameScheduler.currentFrame
  frameCount,       \* Encoder.frameCount: frames written so far
  pc,               \* position of ChatRenderer.render
  batch,            \* render: the batch of the current iteration
  nextBatchTimeMs,  \* render: nextBatchTimeMs of the current iteration
  holdCount,        \* render: frameCount of the current iteration
  holdWritten,      \* writeFrameRepeat: its loop index i
  page,             \* Renderer.page: the entries last given to updateChat
  png,              \* render: its local currentFrame, the captured frame
  ret,              \* the last operation called and what it returned
  delivered,        \* history: every batch returned so far, concatenated
  ingested          \* history: every entry appended by addMessages

vars == <<messages, currentIndex, visibleMessages, totalLineCount, totalFrames,
          currentFrame, frameCount, pc, batch, nextBatchTimeMs, holdCount,
          holdWritten, page, png, ret, delivered, ingested>>

batcherVars == <<messages, currentIndex>>
chatVars == <<visibleMessages, totalLineCount>>
schedulerVars == <<totalFrames, currentFrame>>
loopVars ==
  <<pc, batch, nextBatchTimeMs, holdCount, holdWritten, page, png, frameCount>>

(***************************************************************************)
(* The input events.  ChatRenderer.loadMessages sorts them by timestamp    *)
(* (chat-state.js:174), so every list is non-decreasing.  A list is up to  *)
(* MaxEvents events at the times of EventTimes, one of which may be the    *)
(* head of a burst: BurstSizes further events with the same timestamp, so  *)
(* that a window holds BATCH_MAX_MESSAGES events or more.                  *)
(***************************************************************************)
EventTimes == {0, 400, 500, 501, 1200}
BurstSizes == {BATCH_MAX_MESSAGES - 1, BATCH_MAX_MESSAGES}

Extensions(S) ==
  {Append(s, t) : s \in S,
                  t \in EventTimes}

NonDecreasing(s) == \A i \in 1..(Len(s) - 1) : s[i] <= s[i + 1]

\* the non-decreasing lists of at most n event times
RECURSIVE SortedTimes(_)
SortedTimes(n) ==
  IF n = 0 THEN {<<>>}
  ELSE LET S == SortedTimes(n - 1)
       IN  S \cup {s \in Extensions(S) : NonDecreasing(s)}

Burst(s, p, k) ==
  SubSeq(s, 1, p) \o [i \in 1..k |-> s[p]] \o SubSeq(s, p + 1, Len(s))

EventTimeLists ==
  SortedTimes(MaxEvents)
    \cup UNION {{Burst(s, p, k) : p \in 1..Len(s), k \in BurstSizes} :
                s \in SortedTimes(MaxEvents)}

\* the event at position i has identifier i; all are plain chat messages of
\* one badge, an 8-character name and 100 characters of text (3 lines)
EventList(times) ==
  [i \in 1..Len(times) |-> Message(i, times[i], "chat", 8, 1, <<Text(100)>>)]

EventLists == {EventList(s) : s \in EventTimeLists}

(***************************************************************************)
(* MessageBatcher (src/src/batcher.js)                                     *)
(***************************************************************************)
\* batcher.js:60, the test that ends the batch: the message lies beyond the
\* window (windowEnd in ticks)
BeyondWindowStrict(msg, windowEnd) == Ms(msg.timestamp_ms) >= windowEnd
BeyondWindow(msg, windowEnd) == Ms(msg.timestamp_ms) > windowEnd

\* batcher.js:66-67, batch.push(msg); this.currentIndex++
ConsumeTwice(b, index, msg) == [batch |-> Append(b, msg), index |-> index + 2]
Consume(b, index, msg) == [batch |-> Append(b, msg), index |-> index + 1]

\* batcher.js:71, the test of the cap
AtCapLate(b) == Len(b) > BATCH_MAX_MESSAGES
AtCap(b) == Len(b) >= BATCH_MAX_MESSAGES

\* batcher.js:56-74, the while loop from cursor `index` with `b` collected
\* (the state after one pass is bound by a set, so that it is computed once)
RECURSIVE BatchLoop(_, _, _, _)
BatchLoop(msgs, index, b, windowEnd) ==
  IF index < Len(msgs)
  THEN IF BeyondWindow(msgs[index + 1], windowEnd)
       THEN [batch |-> b, index |-> index]
       ELSE CHOOSE r \in
              { IF AtCap(c.batch)
                THEN c
                ELSE BatchLoop(msgs, c.index, c.batch, windowEnd) :
                  c \in { IF Ms(msgs[index + 1].timestamp_ms) <= windowEnd
                          THEN Consume(b, index, msgs[index + 1])
                          ELSE [batch |-> b, index |-> index] } } : TRUE
  ELSE [batch |-> b, index |-> index]

\* batcher.js:77-79 and 87-92
PeekAt(msgs, index) ==
  IF index < Len(msgs) THEN msgs[index + 1].timestamp_ms ELSE NULL

\* batcher.js:52-82: the batch, the cursor after it and nextBatchTimeMs
GetNextBatchResult(msgs, index, currentTimeMs) ==
  LET windowEnd == currentTimeMs + Ms(BATCH_WINDOW_MS)
      r == BatchLoop(msgs, index, <<>>, windowEnd)
  IN  [messages |-> r.batch, index |-> r.index,
       nextBatchTimeMs |-> PeekAt(msgs, r.index)]

\* batcher.js:118-121
streamDurationMs(msgs) ==
  IF Len(msgs) = 0 THEN 0 ELSE msgs[Len(msgs)].timestamp_ms

\* playback times (ms) a direct caller passes to getNextBatch
CallTimes == {0, 1, 1200}

\* getNextBatch(currentTimeMs) called directly
GetNextBatch(t) ==
  LET r == GetNextBatchResult(messages, currentIndex, Ms(t))
  IN  /\ currentIndex' = r.index
      /\ delivered' = delivered \o r.messages
      /\ ret' = [op |-> "getNextBatch", arg |-> t, before |-> currentIndex,
                 value |-> [messages |-> r.messages,
                            nextBatchTimeMs |-> r.nextBatchTimeMs]]
      /\ UNCHANGED <<messages, chatVars, schedulerVars, loopVars, ingested>>

\* batcher.js:97-99
HasMoreAtOrEnd(msgs, index) == index <= Len(msgs)
HasMoreAt(msgs, index) == index < Len(msgs)

PeekNextTimestamp ==
  /\ ret' = [op |-> "peekNextTimestamp", arg |-> NULL, before |-> currentIndex,
             value |-> PeekAt(messages, currentIndex)]
  /\ UNCHANGED <<batcherVars, chatVars, schedulerVars, loopVars, delivered,
                 ingested>>

HasMore ==
  /\ ret' = [op |-> "hasMore", arg |-> NULL, before |-> currentIndex,
             value |-> HasMoreAt(messages, currentIndex)]
  /\ UNCHANGED <<batcherVars, chatVars, schedulerVars, loopVars, delivered,
                 ingested>>

\* no frame captured yet
NoFrame == [captured |-> FALSE, messages |-> <<>>]

NoRet == [op |-> "none", arg |-> NULL, before |-> 0, value |-> NULL]

\* new MessageBatcher(messages), batcher.js:43-44; the other components idle
BatcherInit ==
  /\ messages \in EventLists
  /\ currentIndex = 0
  /\ visibleMessages = <<>>
  /\ totalLineCount = 0
  /\ totalFrames = 0
  /\ currentFrame = 0
  /\ frameCount = 0
  /\ pc = "idle"
  /\ batch = <<>>
  /\ nextBatchTimeMs = NULL
  /\ holdCount = 0
  /\ holdWritten = 0
  /\ page = <<>>
  /\ png = NoFrame
  /\ ret = NoRet
  /\ delivered = <<>>
  /\ ingested = <<>>

BatcherNext ==
  \/ \E t \in CallTimes : GetNextBatch(t)
  \/ PeekNextTimestamp
  \/ HasMore

\* any sequence of getNextBatch, peekNextTimestamp and hasMore calls
BatcherSpec == BatcherInit /\ [][BatcherNext]_vars

\* batcher.js:104-106; the model stops resetting once MaxDelivered events were
\* returned, so that the history stays finite
Reset ==
  /\ Len(delivered) < MaxDelivered
  /\ currentIndex' = 0
  /\ ret' = [op |-> "reset", arg |-> NULL, before |-> currentIndex,
             value |-> NULL]
  /\ UNCHANGED <<messages, chatVars, schedulerVars, loopVars, delivered, ingested>>

BatcherResetNext ==
  \/ BatcherNext
  \/ Reset

\* any sequence of calls of the public operations of a MessageBatcher
BatcherResetSpec == BatcherInit /\ [][BatcherResetNext]_vars

(***************************************************************************)
(* ChatState (src/src/chat-state.js:8-128).  An entry of visibleMessages   *)
(* is {...msg, _lineCount}, with _deleted set by markDeleted.  Widths are  *)
(* counted in 1/20 px, so that FONT_SIZE_PX * 0.55 is an integer.          *)
(***************************************************************************)
Entry(msg, lineCount) == [msg |-> msg, lineCount |-> lineCount, deleted |-> FALSE]

\* chat-state.js:20, the default containerWidth (px)
DefaultContainerWidth == OUTPUT_WIDTH - (HORIZONTAL_PADDING_PX * 2)

\* chat-state.js:42-50, the width of the segments
RECURSIVE SegmentsWidth(_)
SegmentsWidth(segments) ==
  IF segments = <<>> THEN 0
  ELSE LET segment == Head(segments)
           w == IF segment.type = "text" THEN segment.len * (FONT_SIZE_PX * 11)
                ELSE IF segment.type = "emoji" THEN (FONT_SIZE_PX + 2) * 20
                ELSE 0
       IN  w + SegmentsWidth(Tail(segments))

\* chat-state.js:29-55, contentWidth in 1/20 px, in exact arithmetic
ContentWidth(message) ==
  LET AVG_CHAR_WIDTH == FONT_SIZE_PX * 11
      BADGE_WIDTH == (FONT_SIZE_PX + 4) * 20
      badges == message.author.badges * BADGE_WIDTH
      name == IF message.author.name > 0
              THEN (message.author.name + 2) * AVG_CHAR_WIDTH ELSE 0
      extra == IF message.type = "superchat" \/ message.type = "bits"
               THEN 100 * 20 ELSE 0
  IN  badges + name + SegmentsWidth(message.content.segments) + extra

\* The doubles.  AVG_CHAR_WIDTH_PX is the double nearest 8.8, which lies above
\* it, so a contentWidth that is a whole number of container widths in exact
\* arithmetic can be a double just above it, and Math.ceil then returns one
\* more.  These are the messages of the model (default container width) for
\* which it does, computed in IEEE-754 double arithmetic; for every other
\* message of the model the doubles give the exact result.
EstimateRoundsHigh(message, containerWidth) ==
  /\ containerWidth = DefaultContainerWidth
  /\ <<message.type, message.author.name, message.author.badges,
       message.content.segments>>
       \in { <<"chat", 0, 2, <<Text(190), Text(190)>> >>,
             <<"superchat", 0, 1, <<Text(10), Text(190)>> >>,
             <<"superchat", 0, 1, <<Text(190), Text(10)>> >>,
             <<"superchat", 8, 1, <<Text(190)>> >> }

\* chat-state.js:57, Math.ceil(contentWidth / containerWidth)
LinesRounded(message, containerWidth) ==
  (ContentWidth(message) + (containerWidth * 10)) \div (containerWidth * 20)
LinesCeil(message, containerWidth) ==
  ((ContentWidth(message) + (containerWidth * 20) - 1) \div (containerWidth * 20))
    + (IF EstimateRoundsHigh(message, containerWidth) THEN 1 ELSE 0)

\* chat-state.js:20-59
calculateMessageLines(message, containerWidth) ==
  Max(1, LinesCeil(message, containerWidth))

\* chat-state.js:66-75, the for loop of addMessages (lineCount is bound by a
\* set, so that it is computed once)
RECURSIVE PushAll(_, _, _)
PushAll(vm, total, msgs) ==
  IF msgs = <<>> THEN [vm |-> vm, total |-> total]
  ELSE CHOOSE r \in
         { PushAll(Append(vm, Entry(Head(msgs), lineCount)), total + lineCount,
                   Tail(msgs)) :
             lineCount \in {calculateMessageLines(Head(msgs), DefaultContainerWidth)} } :
         TRUE

\* chat-state.js:96, the guard of the while loop of _trimOverflow
ShouldTrimEager(vm, total) == total >= MAX_VISIBLE_LINES /\ Len(vm) > 0
ShouldTrim(vm, total) == total > MAX_VISIBLE_LINES /\ Len(vm) > 0

\* chat-state.js:97-98, visibleMessages.shift() and the decrement
EvictKeepTotal(vm, total) == [vm |-> Tail(vm), total |-> total]
Evict(vm, total) == [vm |-> Tail(vm), total |-> total - Head(vm).lineCount]

\* chat-state.js:95-100 (the state after one eviction is bound by a set)
TrimOnce(vm, total) ==
  IF ShouldTrim(vm, total) THEN Evict(vm, total) ELSE [vm |-> vm, total |-> total]
RECURSIVE TrimOverflow(_, _)
TrimOverflow(vm, total) ==
  IF ShouldTrim(vm, total)
  THEN CHOOSE r \in {TrimOverflow(e.vm, e.total) : e \in {Evict(vm, total)}} : TRUE
  ELSE [vm |-> vm, total |-> total]

\* chat-state.js:65-79
AddMessagesResult(vm, total, msgs) ==
  LET pushed == PushAll(vm, total, msgs)
  IN  TrimOverflow(pushed.vm, pushed.total)

\* the entries addMessages appends for msgs, as they are when appended
NewEntries(msgs) == PushAll(<<>>, 0, msgs).vm

\* chat-state.js:86, Array.prototype.find: the first index with that id, or 0
RECURSIVE FindFrom(_, _, _)
FindFrom(vm, id, i) ==
  IF i > Len(vm) THEN 0
  ELSE IF vm[i].msg.id = id THEN i
  ELSE FindFrom(vm, id, i + 1)

\* chat-state.js:85-90
MarkDeletedOrOldest(vm, id) ==
  LET i == FindFrom(vm, id, 1)
  IN  IF i > 0 THEN [vm EXCEPT ![i].deleted = TRUE]
      ELSE IF Len(vm) > 0 THEN [vm EXCEPT ![1].deleted = TRUE]
      ELSE vm
MarkDeletedToggle(vm, id) ==
  LET i == FindFrom(vm, id, 1)
  IN  IF i > 0 THEN [vm EXCEPT ![i].deleted = ~vm[i].deleted] ELSE vm
MarkDeletedResult(vm, id) ==
  LET i == FindFrom(vm, id, 1)
  IN  IF i > 0 THEN [vm EXCEPT ![i].deleted = TRUE] ELSE vm

\* chat-state.js:113-119
StateOfCounted(vm, total) ==
  [messages |-> vm, totalLines |-> Len(vm), maxLines |-> MAX_VISIBLE_LINES]
StateOf(vm, total) ==
  [messages |-> vm, totalLines |-> total, maxLines |-> MAX_VISIBLE_LINES]

\* the messages a direct caller of ChatState ingests: of 1, 10, 13 and 28 lines
ChatPool ==
  { Message(1, 0, "chat", 8, 1, <<Text(10)>>),
    Message(2, 0, "superchat", 8, 0, <<Text(400), Emoji>>),
    Message(3, 0, "chat", 8, 2, <<Text(530)>>),
    Message(4, 0, "chat", 8, 0, <<Text(1150)>>) }

\* the identifiers passed to markDeleted: those of the 1-line and the 13-line
\* message of ChatPool and one of no message
DeleteIds == {1, 3, 5}

RECURSIVE SeqsUpTo(_, _)
SeqsUpTo(S, n) ==
  IF n = 0 THEN {<<>>}
  ELSE LET R == SeqsUpTo(S, n - 1)
       IN  R \cup {Append(r, x) : r \in R, x \in S}

ChatBatches == SeqsUpTo(ChatPool, MaxBatch)

AddMessages(msgs) ==
  LET r == AddMessagesResult(visibleMessages, totalLineCount, msgs)
  IN  /\ Len(ingested) + Len(msgs) <= MaxIngested
      /\ visibleMessages' = r.vm
      /\ totalLineCount' = r.total
      /\ ingested' = ingested \o NewEntries(msgs)
      /\ ret' = [op |-> "addMessages", arg |-> Len(msgs),
                 before |-> Len(visibleMessages),
                 value |-> NULL]
      /\ UNCHANGED <<batcherVars, schedulerVars, loopVars, delivered>>

MarkDeleted(id) ==
  /\ visibleMessages' = MarkDeletedResult(visibleMessages, id)
  /\ ret' = [op |-> "markDeleted", arg |-> id, before |-> Len(visibleMessages),
             value |-> NULL]
  /\ UNCHANGED <<totalLineCount, batcherVars, schedulerVars, loopVars, delivered,
                 ingested>>

GetVisibleMessages ==
  /\ ret' = [op |-> "getVisibleMessages", arg |-> NULL,
             before |-> Len(visibleMessages), value |-> visibleMessages]
  /\ UNCHANGED <<chatVars, batcherVars, schedulerVars, loopVars, delivered,
                 ingested>>

GetState ==
  /\ ret' = [op |-> "getState", arg |-> NULL, before |-> Len(visibleMessages),
             value |-> StateOf(visibleMessages, totalLineCount)]
  /\ UNCHANGED <<chatVars, batcherVars, schedulerVars, loopVars, delivered,
                 ingested>>

\* chat-state.js:124-127
Clear ==
  /\ visibleMessages' = <<>>
  /\ totalLineCount' = 0
  /\ ret' = [op |-> "clear", arg |-> NULL, before |-> Len(visibleMessages),
             value |-> NULL]
  /\ UNCHANGED <<batcherVars, schedulerVars, loopVars, delivered, ingested>>

\* new ChatState(), chat-state.js:9-12; the other components idle
ChatInit ==
  /\ messages = <<>>
  /\ currentIndex = 0
  /\ visibleMessages = <<>>
  /\ totalLineCount = 0
  /\ totalFrames = 0
  /\ currentFrame = 0
  /\ frameCount = 0
  /\ pc = "idle"
  /\ batch = <<>>
  /\ nextBatchTimeMs = NULL
  /\ holdCount = 0
  /\ holdWritten = 0
  /\ page = <<>>
  /\ png = NoFrame
  /\ ret = NoRet
  /\ delivered = <<>>
  /\ ingested = <<>>

ChatIngestNext ==
  \/ \E msgs \in ChatBatches : AddMessages(msgs)
  \/ \E id \in DeleteIds : MarkDeleted(id)
  \/ GetVisibleMessages
  \/ GetState

ChatNext ==
  \/ ChatIngestNext
  \/ Clear

\* any sequence of calls of the public operations of a ChatState
ChatStateSpec == ChatInit /\ [][ChatNext]_vars

\* the same without clear()
ChatIngestSpec == ChatInit /\ [][ChatIngestNext]_vars

(***************************************************************************)
(* FrameScheduler (src/src/frame-scheduler.js).  frameDurationMs is 1000   *)
(* ticks.                                                                  *)
(***************************************************************************)
\* frame-scheduler.js:12, Math.ceil(streamDurationMs / this.frameDurationMs)
TotalFramesFloor(durationMs) == Ms(durationMs) \div 1000
TotalFramesOf(durationMs) == (Ms(durationMs) + 999) \div 1000

\* frame-scheduler.js:19-21, in ticks
getCurrentTimeMs(frame) == frame * 1000

\* The doubles.  frameDurationMs is the double nearest 100/3, and for a
\* timestamp that is a whole number of frame durations away from the current
\* time the double quotient durationMs / this.frameDurationMs can fall just
\* below the integer it equals in exact arithmetic, so that Math.floor returns
\* one less.  FloorRoundsLow(t) lists the cursor positions at which that
\* happens for timestamp t, computed in IEEE-754 double arithmetic for the
\* timestamps of EventTimes at the positions 0..45 and for those of
\* TimingTimes at the positions 0..60 (only multiples of 100 ms are ever a
\* whole number of frames away; for the others the doubles agree with exact
\* arithmetic).
FloorRoundsLow(nextEventTimeMs) ==
  CASE nextEventTimeMs = 0 -> {31}
    [] nextEventTimeMs = 400 ->
         {2, 4, 5, 7, 8, 10, 11, 13, 14, 15, 16, 17, 19, 20, 23, 26, 27, 30,
          31, 34, 37, 40, 43}
    [] nextEventTimeMs = 500 ->
         {0, 2, 4, 5, 7, 8, 10, 11, 13, 14, 15, 16, 17, 19, 20, 22, 23, 26,
          27, 29, 30, 31, 34, 37, 40, 43}
    [] nextEventTimeMs = 1200 ->
         {2, 5, 6, 7, 8, 9, 10, 11, 13, 14, 16, 17, 19, 20, 21, 22, 23, 25,
          26, 27, 28, 29, 30, 31, 32, 34, 35, 37, 38, 40, 41, 43, 44}
    [] nextEventTimeMs = 1700 ->
         {0, 2, 5, 8, 10, 11, 13, 14, 16, 17, 19, 20, 21, 22, 23, 24, 25, 26,
          27, 28, 29, 30, 31, 32, 34, 35, 36, 37, 38, 40, 41, 43, 44, 46, 47,
          49, 50, 51, 52, 53, 54, 55, 56, 57, 58, 59, 60}
    [] nextEventTimeMs = 1800 ->
         {0, 2, 3, 5, 8, 10, 11, 13, 14, 16, 17, 19, 20, 22, 23, 24, 25, 26,
          27, 28, 29, 30, 31, 32, 34, 35, 37, 38, 39, 40, 41, 43, 44, 46, 47,
          49, 50, 51, 52, 53, 54, 55, 56, 57, 58, 59, 60}
    [] OTHER -> {}

\* frame-scheduler.js:54-55, Math.floor(durationMs / this.frameDurationMs)
FloorFramesHigh(nextEventTimeMs, frame) ==
  ((Ms(nextEventTimeMs) - getCurrentTimeMs(frame)) \div 1000) + 1
FloorFramesAlwaysLow(nextEventTimeMs, frame) ==
  ((Ms(nextEventTimeMs) - getCurrentTimeMs(frame)) \div 1000) - 1
FloorFrames(nextEventTimeMs, frame) ==
  LET durationMs == Ms(nextEventTimeMs) - getCurrentTimeMs(frame)
  IN  (durationMs \div 1000)
        - (IF frame \in FloorRoundsLow(nextEventTimeMs) THEN 1 ELSE 0)

\* frame-scheduler.js:55, Math.max(1, Math.floor(...))
FrameCountOne(nextEventTimeMs, frame) == 1
FrameCountUnfloored(nextEventTimeMs, frame) == FloorFrames(nextEventTimeMs, frame)
FrameCountFor(nextEventTimeMs, frame) == Max(1, FloorFrames(nextEventTimeMs, frame))

\* frame-scheduler.js:45-59
getFrameCountUntilNullAsZero(nextEventTimeMs, frame, total) ==
  Min(FrameCountFor(Max(nextEventTimeMs, 0), frame), total - frame)
getFrameCountUntil(nextEventTimeMs, frame, total) ==
  IF nextEventTimeMs = NULL THEN total - frame
  ELSE Min(FrameCountFor(nextEventTimeMs, frame), total - frame)

\* frame-scheduler.js:19-21 in doubles: the frames 0..60 at which the product
\* currentFrame * frameDurationMs, a whole number of milliseconds in exact
\* arithmetic, is a double just above that number (at the other multiples of 3
\* it is that number, and at the frames between them it is no whole number)
CurrentTimeRoundsHigh == {15, 27, 30, 51, 54, 57, 60}

\* getCurrentTimeMs() <= tMs at cursor `frame`, as the doubles compare
CurrentTimeAtMost(frame, tMs) ==
  \/ getCurrentTimeMs(frame) < Ms(tMs)
  \/ getCurrentTimeMs(frame) = Ms(tMs) /\ frame \notin CurrentTimeRoundsHigh

\* frame-scheduler.js:65-67, the cursor after skipFrames(count)
SkipStuck(frame, count, total) == Min(frame, total)
skipFrames(frame, count, total) == Min(frame + count, total)

\* frame-scheduler.js:34-37, the cursor after advance()
advance(frame) == frame + 1

\* frame-scheduler.js:72-74
isDoneStrict(frame, total) == frame > total
isDone(frame, total) == frame >= total

\* the counts a direct caller passes to skipFrames
SkipCounts == {0, 1, 5, 40}

Advance ==
  /\ currentFrame < totalFrames + MaxOverrun
  /\ currentFrame' = advance(currentFrame)
  /\ ret' = [op |-> "advance", arg |-> NULL, before |-> currentFrame,
             value |-> (advance(currentFrame) < totalFrames)]
  /\ UNCHANGED <<totalFrames, batcherVars, chatVars, loopVars, delivered, ingested>>

SkipFrames(count) ==
  /\ currentFrame' = skipFrames(currentFrame, count, totalFrames)
  /\ ret' = [op |-> "skipFrames", arg |-> count, before |-> currentFrame,
             value |-> NULL]
  /\ UNCHANGED <<totalFrames, batcherVars, chatVars, loopVars, delivered, ingested>>

GetFrameCountUntil(nextEventTimeMs) ==
  /\ ret' = [op |-> "getFrameCountUntil", arg |-> nextEventTimeMs,
             before |-> currentFrame,
             value |-> getFrameCountUntil(nextEventTimeMs, currentFrame, totalFrames)]
  /\ UNCHANGED <<schedulerVars, batcherVars, chatVars, loopVars, delivered,
                 ingested>>

GetCurrentTimeMs ==
  /\ ret' = [op |-> "getCurrentTimeMs", arg |-> NULL, before |-> currentFrame,
             value |-> getCurrentTimeMs(currentFrame)]
  /\ UNCHANGED <<schedulerVars, batcherVars, chatVars, loopVars, delivered,
                 ingested>>

IsDone ==
  /\ ret' = [op |-> "isDone", arg |-> NULL, before |-> currentFrame,
             value |-> isDone(currentFrame, totalFrames)]
  /\ UNCHANGED <<schedulerVars, batcherVars, chatVars, loopVars, delivered,
                 ingested>>

\* new FrameScheduler(streamDurationMs), frame-scheduler.js:9-14
SchedulerInit ==
  /\ messages = <<>>
  /\ currentIndex = 0
  /\ visibleMessages = <<>>
  /\ totalLineCount = 0
  /\ \E d \in EventTimes : totalFrames = TotalFramesOf(d)
  /\ currentFrame = 0
  /\ frameCount = 0
  /\ pc = "idle"
  /\ batch = <<>>
  /\ nextBatchTimeMs = NULL
  /\ holdCount = 0
  /\ holdWritten = 0
  /\ page = <<>>
  /\ png = NoFrame
  /\ ret = NoRet
  /\ delivered = <<>>
  /\ ingested = <<>>

SchedulerNext ==
  \/ Advance
  \/ \E count \in SkipCounts : SkipFrames(count)
  \/ \E t \in EventTimes \cup {NULL} : GetFrameCountUntil(t)
  \/ GetCurrentTimeMs
  \/ IsDone

\* any sequence of calls of the operations of a FrameScheduler
SchedulerSpec == SchedulerInit /\ [][SchedulerNext]_vars

(***************************************************************************)
(* ChatRenderer (src/src/chat-state.js:147-308): initialize() and the      *)
(* driving loop render().  Every await of render is a step of its own.     *)
(*   capture0    awaiting the capturePngFrame of _captureAndWrite          *)
(*   write0      awaiting the writeFrame of _captureAndWrite               *)
(*   loop        at the while test                                         *)
(*   updateChat  awaiting renderer.updateChat                              *)
(*   capture     awaiting renderer.capturePngFrame                         *)
(*   write       in encoder.writeFrameRepeat                               *)
(*   finish      awaiting encoder.finish and renderer.close                *)
(*   done        render returned                                           *)
(***************************************************************************)
\* chat-state.js:189-203 and the entry of render
Init ==
  /\ messages \in EventLists
  /\ currentIndex = 0
  /\ visibleMessages = <<>>
  /\ totalLineCount = 0
  /\ totalFrames = TotalFramesOf(streamDurationMs(messages))
  /\ currentFrame = 0
  /\ frameCount = 0
  /\ pc = "capture0"
  /\ batch = <<>>
  /\ nextBatchTimeMs = NULL
  /\ holdCount = 0
  /\ holdWritten = 0
  /\ page = <<>>
  /\ png = NoFrame
  /\ ret = NoRet
  /\ delivered = <<>>
  /\ ingested = <<>>

\* chat-state.js:265, the initial capturePngFrame returns
CaptureInitial ==
  /\ pc = "capture0"
  /\ png' = [captured |-> TRUE, messages |-> page]
  /\ pc' = "write0"
  /\ UNCHANGED <<batcherVars, chatVars, schedulerVars, batch, nextBatchTimeMs,
                 holdCount, holdWritten, page, frameCount, ret, delivered,
                 ingested>>

\* chat-state.js:266-268 (encoder.js:79-93), the initial writeFrame returns
\* and the scheduler advances
WriteInitialNoAdvance ==
  /\ pc = "write0"
  /\ frameCount' = frameCount + 1
  /\ pc' = "loop"
  /\ UNCHANGED <<batcherVars, chatVars, schedulerVars, batch, nextBatchTimeMs,
                 holdCount, holdWritten, page, png, ret, delivered, ingested>>
WriteInitial ==
  /\ pc = "write0"
  /\ frameCount' = frameCount + 1
  /\ currentFrame' = advance(currentFrame)
  /\ pc' = "loop"
  /\ UNCHANGED <<batcherVars, chatVars, totalFrames, batch, nextBatchTimeMs,
                 holdCount, holdWritten, page, png, ret, delivered, ingested>>

\* chat-state.js:216-230, from the while test to the next await: the batch is
\* pulled and, when it is not empty, ingested; an empty batch goes on to the
\* frame count
LoopIteration ==
  /\ pc = "loop"
  /\ ~isDone(currentFrame, totalFrames)
  /\ \E r \in {GetNextBatchResult(messages, currentIndex,
                                  getCurrentTimeMs(currentFrame))} :
       /\ currentIndex' = r.index
       /\ batch' = r.messages
       /\ nextBatchTimeMs' = r.nextBatchTimeMs
       /\ delivered' = delivered \o r.messages
       /\ IF Len(r.messages) > 0
          THEN \E a \in {AddMessagesResult(visibleMessages, totalLineCount,
                                           r.messages)} :
                 /\ visibleMessages' = a.vm
                 /\ totalLineCount' = a.total
                 /\ ingested' = ingested \o NewEntries(r.messages)
                 /\ pc' = "updateChat"
                 /\ UNCHANGED <<holdCount, holdWritten>>
          ELSE /\ holdCount' = getFrameCountUntil(r.nextBatchTimeMs, currentFrame,
                                                  totalFrames)
               /\ holdWritten' = 0
               /\ pc' = "write"
               /\ UNCHANGED <<chatVars, ingested>>
  /\ UNCHANGED <<messages, schedulerVars, page, png, frameCount, ret>>

\* chat-state.js:225, updateChat(getState()) returns
UpdateChatNotAwaited ==
  /\ pc = "updateChat"
  /\ pc' = "capture"
  /\ UNCHANGED <<batcherVars, chatVars, schedulerVars, batch, nextBatchTimeMs,
                 holdCount, holdWritten, page, png, frameCount, ret, delivered,
                 ingested>>
UpdateChat ==
  /\ pc = "updateChat"
  /\ page' = StateOf(visibleMessages, totalLineCount).messages
  /\ pc' = "capture"
  /\ UNCHANGED <<batcherVars, chatVars, schedulerVars, batch, nextBatchTimeMs,
                 holdCount, holdWritten, png, frameCount, ret, delivered,
                 ingested>>

\* chat-state.js:226-230, capturePngFrame returns and the frame count is taken
Capture ==
  /\ pc = "capture"
  /\ png' = [captured |-> TRUE, messages |-> page]
  /\ holdCount' = getFrameCountUntil(nextBatchTimeMs, currentFrame, totalFrames)
  /\ holdWritten' = 0
  /\ pc' = "write"
  /\ UNCHANGED <<batcherVars, chatVars, schedulerVars, batch, nextBatchTimeMs,
                 page, frameCount, ret, delivered, ingested>>

\* encoder.js:106-110, one writeFrame of writeFrameRepeat returns
WriteFrame ==
  /\ pc = "write"
  /\ holdWritten < holdCount
  /\ frameCount' = frameCount + 1
  /\ holdWritten' = holdWritten + 1
  /\ UNCHANGED <<batcherVars, chatVars, schedulerVars, pc, batch,
                 nextBatchTimeMs, holdCount, page, png, ret, delivered, ingested>>

\* chat-state.js:233-234, writeFrameRepeat returns and the frames are skipped
SkipHeld ==
  /\ pc = "write"
  /\ ~(holdWritten < holdCount)
  /\ currentFrame' = skipFrames(currentFrame, holdCount, totalFrames)
  /\ pc' = "loop"
  /\ UNCHANGED <<batcherVars, chatVars, totalFrames, batch, nextBatchTimeMs,
                 holdCount, holdWritten, page, png, frameCount, ret, delivered,
                 ingested>>

\* chat-state.js:216, the while test fails
LoopExit ==
  /\ pc = "loop"
  /\ isDone(currentFrame, totalFrames)
  /\ pc' = "finish"
  /\ UNCHANGED <<batcherVars, chatVars, schedulerVars, batch, nextBatchTimeMs,
                 holdCount, holdWritten, page, png, frameCount, ret, delivered,
                 ingested>>

\* chat-state.js:252-253, encoder.finish and renderer.close return
Finish ==
  /\ pc = "finish"
  /\ pc' = "done"
  /\ UNCHANGED <<batcherVars, chatVars, schedulerVars, batch, nextBatchTimeMs,
                 holdCount, holdWritten, page, png, frameCount, ret, delivered,
                 ingested>>

Next ==
  \/ CaptureInitial
  \/ WriteInitial
  \/ LoopIteration
  \/ UpdateChat
  \/ Capture
  \/ WriteFrame
  \/ SkipHeld
  \/ LoopExit
  \/ Finish

\* one run of the pipeline over any input list
Spec == Init /\ [][Next]_vars

\* the same, where every pending step is eventually taken: the external render
\* and write calls return and the continuation of an await runs
FairSpec == Spec /\ WF_vars(Next)

\* A deletion marker: an event of type 'deleted' (batcher.js:17, 40) that
\* carries the identifier of the event it deletes; it has no content.
Marker(id, ts) == Message(id, ts, "deleted", 8, 1, <<>>)

\* the events at `times`, the one at position j being the marker of the event
\* at position i
DeletionList(times, i, j) ==
  [k \in 1..Len(times) |->
     IF k = j THEN Marker(i, times[k]) ELSE EventList(times)[k]]

\* the input lists in which one event is followed, somewhere, by its marker
\* the times of these lists: 750 ms lies beyond the first window and strictly
\* between two frames
DeletionTimes == {0, 400, 750, 1200}

DeletionTimeLists ==
  {s \in UNION {[1..n -> DeletionTimes] : n \in 2..MaxEvents} : NonDecreasing(s)}

DeletionLists ==
  UNION {{DeletionList(s, p[1], p[2]) :
            p \in {q \in (1..Len(s)) \X (1..Len(s)) : q[1] < q[2]}} :
         s \in DeletionTimeLists}

\* chat-state.js:189-203 and the entry of render, over a list with a marker
DeletionInit ==
  /\ messages \in DeletionLists
  /\ currentIndex = 0
  /\ visibleMessages = <<>>
  /\ totalLineCount = 0
  /\ totalFrames = TotalFramesOf(streamDurationMs(messages))
  /\ currentFrame = 0
  /\ frameCount = 0
  /\ pc = "capture0"
  /\ batch = <<>>
  /\ nextBatchTimeMs = NULL
  /\ holdCount = 0
  /\ holdWritten = 0
  /\ page = <<>>
  /\ png = NoFrame
  /\ ret = NoRet
  /\ delivered = <<>>
  /\ ingested = <<>>

\* one run of the pipeline over an input list with a deletion marker
DeletionSpec == DeletionInit /\ [][Next]_vars

(***************************************************************************)
(* A MessageBatcher and the FrameScheduler of its stream, called directly  *)
(* as render calls them: getNextBatch, getFrameCountUntil of the           *)
(* nextBatchTimeMs it returned, and skipFrames of the count that returned  *)
(* (chat-state.js:220-234).                                                *)
(***************************************************************************)
\* new MessageBatcher(messages), new FrameScheduler(batcher.streamDurationMs)
\* (chat-state.js:192-195)
ScenarioInit ==
  /\ messages \in EventLists
  /\ currentIndex = 0
  /\ visibleMessages = <<>>
  /\ totalLineCount = 0
  /\ totalFrames = TotalFramesOf(streamDurationMs(messages))
  /\ currentFrame = 0
  /\ frameCount = 0
  /\ pc = "idle"
  /\ batch = <<>>
  /\ nextBatchTimeMs = NULL
  /\ holdCount = 0
  /\ holdWritten = 0
  /\ page = <<>>
  /\ png = NoFrame
  /\ ret = NoRet
  /\ delivered = <<>>
  /\ ingested = <<>>

\* chat-state.js:230-234, skipFrames(frameCount) of the count just returned
SkipReturned ==
  /\ ret.op = "getFrameCountUntil"
  /\ SkipFrames(ret.value)

\* chat-state.js:220-230, getFrameCountUntil(nextBatchTimeMs) of the
\* nextBatchTimeMs just returned
HoldUntilNext ==
  /\ ret.op = "getNextBatch"
  /\ GetFrameCountUntil(ret.value.nextBatchTimeMs)

ScenarioNext ==
  \/ \E t \in CallTimes : GetNextBatch(t)
  \/ HoldUntilNext
  \/ SkipReturned

ScenarioSpec == ScenarioInit /\ [][ScenarioNext]_vars

(***************************************************************************)
(* Failures.  An awaited external call of render may reject: the page      *)
(* calls of the Renderer (src/unnamed/part_001) and Encoder.writeFrame     *)
(* (encoder.js:80-82, 86-87).  The rejection leaves render at the await    *)
(* (pc "failed") and reaches the catch of run (chat-state.js:298-306),     *)
(* which closes the renderer and the encoder and throws it on (pc          *)
(* "thrown").  ret names the call that failed.                             *)
(***************************************************************************)
\* the call awaited at `at` rejects
FailCallAfterSkip(at, op) ==
  /\ pc = at
  /\ at = "write" => holdWritten < holdCount
  /\ pc' = "failed"
  /\ currentFrame' = IF at = "write"
                     THEN skipFrames(currentFrame, holdCount, totalFrames)
                     ELSE currentFrame
  /\ ret' = [op |-> op, arg |-> NULL, before |-> currentFrame, value |-> NULL]
  /\ UNCHANGED <<batcherVars, chatVars, totalFrames, batch, nextBatchTimeMs,
                 holdCount, holdWritten, page, png, frameCount, delivered,
                 ingested>>
FailCall(at, op) ==
  /\ pc = at
  /\ at = "write" => holdWritten < holdCount
  /\ pc' = "failed"
  /\ ret' = [op |-> op, arg |-> NULL, before |-> currentFrame, value |-> NULL]
  /\ UNCHANGED <<batcherVars, chatVars, schedulerVars, batch, nextBatchTimeMs,
                 holdCount, holdWritten, page, png, frameCount, delivered,
                 ingested>>

\* chat-state.js:298-306, the catch of run: close, finish, throw err
RunCatch ==
  /\ pc = "failed"
  /\ pc' = "thrown"
  /\ UNCHANGED <<batcherVars, chatVars, schedulerVars, batch, nextBatchTimeMs,
                 holdCount, holdWritten, page, png, frameCount, ret, delivered,
                 ingested>>

FailureNext ==
  \/ Next
  \/ FailCall("capture0", "capturePngFrame")
  \/ FailCall("write0", "writeFrame")
  \/ FailCall("updateChat", "updateChat")
  \/ FailCall("capture", "capturePngFrame")
  \/ FailCall("write", "writeFrame")
  \/ RunCatch

\* one run of the pipeline in which any external call may fail
FailureSpec == Init /\ [][FailureNext]_vars

(***************************************************************************)
(* calculateMessageLines as a pure function (chat-state.js:20-59): the     *)
(* message under estimate is batch[1]; every step lengthens it in one way  *)
(* and estimates the lines of the message before and after.                *)
(***************************************************************************)
NameLengths == {0, 8, 9}
BadgeCounts == {0, 1, 2}
TextLengths == {10, 190, 191}
LineTypes == {"chat", "superchat"}
LineSegments == {Text(n) : n \in TextLengths} \cup {Emoji}

LineMessages ==
  {Message(1, 0, type, name, badges, segments) :
     type \in LineTypes, name \in NameLengths, badges \in BadgeCounts,
     segments \in SeqsUpTo(LineSegments, MaxSegments)}

\* s with x inserted after position p
InsertAt(s, p, x) == SubSeq(s, 1, p) \o <<x>> \o SubSeq(s, p + 1, Len(s))

\* calculateMessageLines(longer) after calculateMessageLines(batch[1])
Estimate(longer) ==
  /\ batch' = <<longer>>
  /\ ret' = [op |-> "calculateMessageLines", arg |-> NULL,
             before |-> calculateMessageLines(batch[1], DefaultContainerWidth),
             value |-> calculateMessageLines(longer, DefaultContainerWidth)]
  /\ UNCHANGED <<batcherVars, chatVars, schedulerVars, pc, nextBatchTimeMs,
                 holdCount, holdWritten, page, png, frameCount, delivered,
                 ingested>>

LongerName ==
  \E name \in NameLengths :
    /\ name > batch[1].author.name
    /\ Estimate([batch[1] EXCEPT !.author.name = name])

AddBadge ==
  /\ batch[1].author.badges + 1 \in BadgeCounts
  /\ Estimate([batch[1] EXCEPT !.author.badges = @ + 1])

LongerText ==
  \E i \in 1..Len(batch[1].content.segments) : \E len \in TextLengths :
    /\ batch[1].content.segments[i].type = "text"
    /\ len > batch[1].content.segments[i].len
    /\ Estimate([batch[1] EXCEPT !.content.segments[i] = Text(len)])

AddSegment ==
  /\ Len(batch[1].content.segments) < MaxSegments
  /\ \E p \in 0..Len(batch[1].content.segments) : \E segment \in LineSegments :
       Estimate([batch[1] EXCEPT !.content.segments = InsertAt(@, p, segment)])

LinesInit ==
  /\ messages = <<>>
  /\ currentIndex = 0
  /\ visibleMessages = <<>>
  /\ totalLineCount = 0
  /\ totalFrames = 0
  /\ currentFrame = 0
  /\ frameCount = 0
  /\ pc = "idle"
  /\ batch \in {<<message>> : message \in LineMessages}
  /\ nextBatchTimeMs = NULL
  /\ holdCount = 0
  /\ holdWritten = 0
  /\ page = <<>>
  /\ png = NoFrame
  /\ ret = NoRet
  /\ delivered = <<>>
  /\ ingested = <<>>

LinesNext ==
  \/ LongerName
  \/ AddBadge
  \/ LongerText
  \/ AddSegment

LinesSpec == LinesInit /\ [][LinesNext]_vars

(***************************************************************************)
(* The pipeline over streams whose first event can lie beyond the first    *)
(* window and whose holds can end exactly on an event: 34 ms is the first  *)
(* whole millisecond after frame 1, 750 ms lies between two frames, and    *)
(* 1700 ms and 1800 ms are the times of frames 51 and 54.                  *)
(***************************************************************************)
TimingTimes == {0, 34, 750, 1700, 1800}

TimingSortedTimes ==
  {s \in UNION {[1..n -> TimingTimes] : n \in 0..MaxEvents} : NonDecreasing(s)}

TimingTimeLists ==
  TimingSortedTimes
    \cup UNION {{Burst(s, p, k) : p \in 1..Len(s), k \in BurstSizes} :
                s \in TimingSortedTimes}

TimingLists == {EventList(s) : s \in TimingTimeLists}

\* chat-state.js:189-203 and the entry of render, over these streams
TimingInit ==
  /\ messages \in TimingLists
  /\ currentIndex = 0
  /\ visibleMessages = <<>>
  /\ totalLineCount = 0
  /\ totalFrames = TotalFramesOf(streamDurationMs(messages))
  /\ currentFrame = 0
  /\ frameCount = 0
  /\ pc = "capture0"
  /\ batch = <<>>
  /\ nextBatchTimeMs = NULL
  /\ holdCount = 0
  /\ holdWritten = 0
  /\ page = <<>>
  /\ png = NoFrame
  /\ ret = NoRet
  /\ delivered = <<>>
  /\ ingested = <<>>

\* one run of the pipeline over such a stream
TimingSpec == TimingInit /\ [][Next]_vars

(***************************************************************************)
(* Claims                                                                  *)
(***************************************************************************)
Last(s) == s[Len(s)]
Identity(e) == [msg |-> e.msg, lineCount |-> e.lineCount]

\* C1 (BatcherSpec): the cursor never decreases, every batch returned is the
\* slice of the input between the cursor before the call and the cursor after
\* it, and all batches returned so far, concatenated, are the input prefix of
\* length currentIndex.
C1_BatchesArePrefix ==
  /\ currentIndex \in 0..Len(messages)
  /\ delivered = SubSeq(messages, 1, currentIndex)
  /\ ret.op = "getNextBatch" =>
       /\ ret.before <= currentIndex
       /\ ret.value.messages = SubSeq(messages, ret.before + 1, currentIndex)

\* a second, non-empty batch was returned and events are still pending
C1_Witness ==
  /\ ret.op = "getNextBatch"
  /\ ret.before > 0
  /\ currentIndex > ret.before
  /\ currentIndex < Len(messages)

\* C10 (BatcherSpec): after getNextBatch(t) an event with timestamp exactly
\* t + BATCH_WINDOW_MS that lies within BATCH_MAX_MESSAGES events of the cursor
\* is in the batch, and no event with timestamp t + BATCH_WINDOW_MS + 1 is.
C10_WindowEndInclusive ==
  ret.op = "getNextBatch" =>
    /\ \A i \in (ret.before + 1)..Len(messages) :
         (/\ messages[i].timestamp_ms = ret.arg + BATCH_WINDOW_MS
          /\ i - ret.before <= BATCH_MAX_MESSAGES)
           => /\ i <= currentIndex
              /\ ret.value.messages[i - ret.before] = messages[i]
    /\ \A j \in 1..Len(ret.value.messages) :
         ret.value.messages[j].timestamp_ms # ret.arg + BATCH_WINDOW_MS + 1

\* the batch ends with an event at the window end and the event now at the
\* cursor is one millisecond beyond it
C10_Witness ==
  /\ ret.op = "getNextBatch"
  /\ Len(ret.value.messages) > 0
  /\ Last(ret.value.messages).timestamp_ms = ret.arg + BATCH_WINDOW_MS
  /\ ret.value.nextBatchTimeMs = ret.arg + BATCH_WINDOW_MS + 1

\* C3 (ChatStateSpec): at every call boundary totalLineCount is within
\* MAX_VISIBLE_LINES or the buffer is one entry that alone exceeds it; a buffer
\* of two or more entries never exceeds the budget.
C3_BudgetRestored ==
  /\ \/ totalLineCount <= MAX_VISIBLE_LINES
     \/ Len(visibleMessages) = 1 /\ visibleMessages[1].lineCount > MAX_VISIBLE_LINES
  /\ Len(visibleMessages) >= 2 => SumLines(visibleMessages) <= MAX_VISIBLE_LINES

\* addMessages evicted at least one entry and left two or more
C3_Witness ==
  /\ ret.op = "addMessages"
  /\ Len(visibleMessages) < ret.before + ret.arg
  /\ Len(visibleMessages) >= 2

\* C4 (ChatStateSpec), as claimed: when the last message of the batch alone
\* exceeds MAX_VISIBLE_LINES, addMessages leaves exactly that entry in the
\* buffer and totalLineCount is its line count.
C4_OversizedEntryKept ==
  (/\ ret.op = "addMessages"
   /\ ret.arg > 0
   /\ Last(ingested).lineCount > MAX_VISIBLE_LINES)
    => /\ Len(visibleMessages) = 1
       /\ Identity(visibleMessages[1]) = Identity(Last(ingested))
       /\ totalLineCount = Last(ingested).lineCount

\* C5 (ChatStateSpec): totalLineCount is the sum of the line counts of the
\* entries in visibleMessages, and clear() leaves the empty buffer with total 0.
C5_TotalIsSum ==
  /\ totalLineCount = SumLines(visibleMessages)
  /\ ret.op = "clear" => visibleMessages = <<>> /\ totalLineCount = 0

\* addMessages evicted an entry from a buffer in which another is marked deleted
C5_Witness ==
  /\ ret.op = "addMessages"
  /\ Len(visibleMessages) < ret.before + ret.arg
  /\ \E i \in 1..Len(visibleMessages) : visibleMessages[i].deleted
  /\ totalLineCount > 0

\* the buffer is the last Len(visibleMessages) entries ever ingested, and the
\* longest such suffix within the budget
FifoSuffix ==
  LET n == Len(visibleMessages)
      k == Len(ingested)
  IN  /\ n <= k
      /\ \A i \in 1..n : Identity(visibleMessages[i]) = Identity(ingested[k - n + i])
      /\ SumLines(visibleMessages) <= MAX_VISIBLE_LINES
      /\ n < k => SumLines(Suffix(ingested, n + 1)) > MAX_VISIBLE_LINES

Evicted == Len(ingested) - Len(visibleMessages)

\* C6 (ChatIngestSpec): without clear(), visibleMessages is always a contiguous
\* suffix of the entries ever ingested, the longest one whose lines fit the
\* budget, and the number of evicted entries never decreases (an evicted entry
\* does not come back).
C6_FifoMinimalEviction ==
  /\ []FifoSuffix
  /\ [][Evicted' >= Evicted]_vars

\* three entries of 10 lines ingested in one call into the empty buffer leave
\* the last two, with total 20
C6_Witness ==
  /\ ret.op = "addMessages"
  /\ ret.before = 0
  /\ ret.arg = 3
  /\ Len(ingested) = 3
  /\ \A i \in 1..3 : ingested[i].lineCount = 10
  /\ Len(visibleMessages) = 2
  /\ totalLineCount = 20

\* C2 (Spec), as claimed: when render has returned, every input event was
\* returned by getNextBatch and handed to addMessages, in order.
C2_NoEventSkipped ==
  pc = "done" =>
    /\ delivered = messages
    /\ Len(ingested) = Len(messages)
    /\ \A i \in 1..Len(messages) : ingested[i].msg = messages[i]

\* C7 (Spec), as claimed: the frame cursor stays within 0..totalFrames and
\* never decreases.
C7_CursorWithinTotal ==
  /\ [](0 <= currentFrame /\ currentFrame <= totalFrames)
  /\ [][currentFrame' >= currentFrame]_vars

\* C8 (SchedulerSpec), as claimed: getFrameCountUntil of a finite time returns
\* at least 1 at every cursor position.
C8_HoldAtLeastOne ==
  (ret.op = "getFrameCountUntil" /\ ret.arg # NULL) => ret.value >= 1

\* C8 (SchedulerSpec), amended: getFrameCountUntil of a finite time returns at
\* least 1 while isDone() is false, also for a time at or before the current
\* time; once isDone() is true it returns totalFrames - currentFrame, which is
\* 0 or less.
C8_HoldAtLeastOneUnlessDone ==
  (ret.op = "getFrameCountUntil" /\ ret.arg # NULL) =>
    /\ ~isDone(currentFrame, totalFrames) => ret.value >= 1
    /\ isDone(currentFrame, totalFrames) => ret.value = totalFrames - currentFrame

\* the time asked for is not after the current time, the scheduler is not done,
\* and one frame is returned
C8_Witness ==
  /\ ret.op = "getFrameCountUntil"
  /\ ret.arg # NULL
  /\ currentFrame > 0
  /\ Ms(ret.arg) <= getCurrentTimeMs(currentFrame)
  /\ ~isDone(currentFrame, totalFrames)
  /\ ret.value = 1

\* C9 (FairSpec): the driving loop terminates; every hold it writes is of at
\* least one frame, and the skipFrames that follows moves the cursor forward by
\* exactly that count.
C9_LoopTerminates ==
  /\ <>(pc = "done")
  /\ [](pc = "write" => holdCount >= 1)
  /\ [][(pc = "write" /\ pc' = "loop") =>
          /\ currentFrame' = currentFrame + holdCount
          /\ currentFrame' > currentFrame]_vars

\* render returned after more than one batch was pulled
C9_Witness ==
  /\ pc = "done"
  /\ Len(delivered) > BATCH_MAX_MESSAGES
  /\ frameCount > 2

\* C11 (BatcherSpec): the batch returned by getNextBatch(t) is the events from
\* the cursor on, none later than t + BATCH_WINDOW_MS and at most
\* BATCH_MAX_MESSAGES of them, and it ends only at the cap, before the first
\* event beyond the window, or at the end of the list.
C11_LongestRunInWindow ==
  ret.op = "getNextBatch" =>
    LET b == ret.value.messages
        n == Len(b)
        windowEnd == ret.arg + BATCH_WINDOW_MS
    IN  /\ n <= BATCH_MAX_MESSAGES
        /\ ret.before + n <= Len(messages)
        /\ b = SubSeq(messages, ret.before + 1, ret.before + n)
        /\ \A j \in 1..n : b[j].timestamp_ms <= windowEnd
        /\ \/ n = BATCH_MAX_MESSAGES
           \/ ret.before + n = Len(messages)
           \/ messages[ret.before + n + 1].timestamp_ms > windowEnd

\* the batch ended at the cap although the next event is within the window
C11_Witness ==
  /\ ret.op = "getNextBatch"
  /\ Len(ret.value.messages) = BATCH_MAX_MESSAGES
  /\ ret.value.nextBatchTimeMs # NULL
  /\ ret.value.nextBatchTimeMs <= ret.arg + BATCH_WINDOW_MS

\* C12 (BatcherResetSpec), as claimed: no operation moves the cursor backwards
\* or changes the event list, and no event is returned in two batches.
C12_CursorIrreversible ==
  /\ [][currentIndex' >= currentIndex /\ messages' = messages]_vars
  /\ [](\A i, j \in 1..Len(delivered) :
          i # j => delivered[i].id # delivered[j].id)


\* C13 (BatcherSpec): nextBatchTimeMs is the timestamp of the event at the
\* cursor after the call, and null exactly at the end of the list; a
\* peekNextTimestamp called next returns the same value and a hasMore called
\* next is true exactly when it is not null; peekNextTimestamp and hasMore
\* change neither the cursor nor the list.
C13_NextTimestampAgrees ==
  /\ [](ret.op = "getNextBatch" =>
          /\ currentIndex < Len(messages) =>
               ret.value.nextBatchTimeMs = messages[currentIndex + 1].timestamp_ms
          /\ (ret.value.nextBatchTimeMs = NULL) <=> (currentIndex = Len(messages)))
  /\ [][(ret.op = "getNextBatch" /\ ret'.op = "peekNextTimestamp") =>
          ret'.value = ret.value.nextBatchTimeMs]_vars
  /\ [][(ret.op = "getNextBatch" /\ ret'.op = "hasMore") =>
          (ret'.value <=> ret.value.nextBatchTimeMs # NULL)]_vars
  /\ [][ret'.op \in {"peekNextTimestamp", "hasMore"} =>
          UNCHANGED <<currentIndex, messages>>]_vars

\* hasMore is false after the batch that consumed the last event of a list
\* pulled in more than one batch
C13_Witness ==
  /\ ret.op = "hasMore"
  /\ ret.value = FALSE
  /\ currentIndex = Len(messages)
  /\ Len(messages) > BATCH_MAX_MESSAGES


\* C14 (ChatStateSpec): markDeleted(id) with an id that no entry of the buffer
\* has (never inserted, evicted or cleared) returns and leaves the entries,
\* their line counts and flags, and totalLineCount as they were.
C14_AbsentIdIgnored ==
  [][(ret'.op = "markDeleted" /\ FindFrom(visibleMessages, ret'.arg, 1) = 0) =>
       /\ visibleMessages' = visibleMessages
       /\ totalLineCount' = totalLineCount]_vars

\* markDeleted was called with the id of an entry that was ingested and is no
\* longer in the non-empty buffer
C14_Witness ==
  /\ ret.op = "markDeleted"
  /\ Len(visibleMessages) > 0
  /\ \A i \in 1..Len(visibleMessages) : visibleMessages[i].msg.id # ret.arg
  /\ \E k \in 1..Len(ingested) : ingested[k].msg.id = ret.arg
  /\ \A i \in 1..Len(visibleMessages) : ~visibleMessages[i].deleted

\* the position in `ingested` of the entry at position i of the buffer vm
IngestedIndex(vm, ing, i) == Len(ing) - Len(vm) + i

\* C15 (ChatStateSpec): markDeleted(id) with an id in the buffer keeps the
\* entries, their order, their line counts and totalLineCount, and changes no
\* flag but that of an entry with that id, which it sets; no operation clears
\* the flag of an entry that stays in the buffer.
C15_OnlyFlagSet ==
  /\ [][(ret'.op = "markDeleted" /\ FindFrom(visibleMessages, ret'.arg, 1) > 0) =>
          /\ Len(visibleMessages') = Len(visibleMessages)
          /\ \A i \in 1..Len(visibleMessages) :
               /\ Identity(visibleMessages'[i]) = Identity(visibleMessages[i])
               /\ visibleMessages'[i].deleted # visibleMessages[i].deleted =>
                    visibleMessages'[i].msg.id = ret'.arg
          /\ visibleMessages'[FindFrom(visibleMessages, ret'.arg, 1)].deleted
          /\ totalLineCount' = totalLineCount]_vars
  /\ [][\A i \in 1..Len(visibleMessages) : \A j \in 1..Len(visibleMessages') :
          (/\ IngestedIndex(visibleMessages, ingested, i)
                = IngestedIndex(visibleMessages', ingested', j)
           /\ visibleMessages[i].deleted)
            => visibleMessages'[j].deleted]_vars

\* markDeleted was called with the id of a flagged entry of a buffer of three
\* or more entries, in which an entry of another id is not flagged
C15_Witness ==
  /\ ret.op = "markDeleted"
  /\ Len(visibleMessages) >= 3
  /\ \E i \in 1..Len(visibleMessages) :
       /\ visibleMessages[i].msg.id = ret.arg
       /\ visibleMessages[i].deleted
  /\ \E i \in 1..Len(visibleMessages) :
       /\ visibleMessages[i].msg.id # ret.arg
       /\ ~visibleMessages[i].deleted
  /\ totalLineCount = SumLines(visibleMessages)


\* C16 (DeletionSpec), as claimed: once the pipeline has processed a deletion
\* marker, the entry with the marker's identifier that is in the visible
\* window is flagged deleted.
C16_MarkerFlagsOriginal ==
  \A i, j \in 1..Len(visibleMessages) :
    (/\ i < j
     /\ visibleMessages[j].msg.type = "deleted"
     /\ visibleMessages[i].msg.type # "deleted"
     /\ visibleMessages[i].msg.id = visibleMessages[j].msg.id)
      => visibleMessages[i].deleted


\* C17 (SchedulerSpec): getFrameCountUntil(null) returns totalFrames -
\* currentFrame at every cursor position; getFrameCountUntil, of null or of a
\* time, leaves the cursor and totalFrames unchanged, and called again with the
\* same argument, with no other call in between, returns the same value.
C17_NullIsRemainingAndPure ==
  /\ []((ret.op = "getFrameCountUntil" /\ ret.arg = NULL) =>
          ret.value = totalFrames - currentFrame)
  /\ [][ret'.op = "getFrameCountUntil" =>
          UNCHANGED <<currentFrame, totalFrames>>]_vars
  /\ [][(/\ ret.op = "getFrameCountUntil"
         /\ ret'.op = "getFrameCountUntil"
         /\ ret'.arg = ret.arg) => ret'.value = ret.value]_vars

\* getFrameCountUntil(null) was called in mid-stream
C17_Witness ==
  /\ ret.op = "getFrameCountUntil"
  /\ ret.arg = NULL
  /\ currentFrame > 0
  /\ currentFrame < totalFrames
  /\ ret.value = totalFrames - currentFrame


\* floor((nextEventTimeMs - currentFrame * frameDurationMs) / frameDurationMs)
\* with frameDurationMs = 1000 / FRAMERATE, in exact arithmetic
ExactFloor(nextEventTimeMs, frame) ==
  (Ms(nextEventTimeMs) - frame * 1000) \div 1000

\* C18 (SchedulerSpec), as claimed: getFrameCountUntil of a finite time returns
\* min(max(1, floor(duration / frameDurationMs)), totalFrames - currentFrame),
\* and when that floor is at least 1, skipFrames of the returned count leaves
\* getCurrentTimeMs() <= nextEventTimeMs.
C18_HoldIsFloorOfDuration ==
  (ret.op = "getFrameCountUntil" /\ ret.arg # NULL) =>
    /\ ret.value = Min(Max(1, ExactFloor(ret.arg, currentFrame)),
                       totalFrames - currentFrame)
    /\ ExactFloor(ret.arg, currentFrame) >= 1 =>
         CurrentTimeAtMost(skipFrames(currentFrame, ret.value, totalFrames),
                           ret.arg)


\* C19 (SchedulerSpec), as claimed: skipFrames(count) sets the cursor to
\* min(currentFrame + count, totalFrames), leaves a cursor equal to totalFrames
\* where it is, and no other operation changes the cursor.
C19_SkipFramesOnlyMutator ==
  /\ [](ret.op = "skipFrames" =>
          currentFrame = Min(ret.before + ret.arg, totalFrames))
  /\ [][(currentFrame = totalFrames /\ ret'.op = "skipFrames") =>
          currentFrame' = currentFrame]_vars
  /\ [][currentFrame' # currentFrame => ret'.op = "skipFrames"]_vars


\* the events of the scenario: three, at 0, 400 and 1200 ms
ScenarioEvents ==
  /\ Len(messages) = 3
  /\ messages[1].timestamp_ms = 0
  /\ messages[2].timestamp_ms = 400
  /\ messages[3].timestamp_ms = 1200

\* C20 (ScenarioSpec): over events at 0, 400 and 1200 ms, getNextBatch(0) at
\* the start returns the first two events and nextBatchTimeMs 1200;
\* getFrameCountUntil(1200) at cursor 0 is 36; skipFrames(36) from cursor 0
\* leaves the cursor at 36; getNextBatch(1200) with two events consumed returns
\* the third and null; getFrameCountUntil(null) returns totalFrames -
\* currentFrame.
C20_EndToEndScenario ==
  ScenarioEvents =>
    /\ (ret.op = "getNextBatch" /\ ret.arg = 0 /\ ret.before = 0) =>
         /\ ret.value.messages = SubSeq(messages, 1, 2)
         /\ ret.value.nextBatchTimeMs = 1200
    /\ (ret.op = "getFrameCountUntil" /\ ret.arg = 1200 /\ currentFrame = 0) =>
         ret.value = 36
    /\ (ret.op = "skipFrames" /\ ret.arg = 36 /\ ret.before = 0) =>
         currentFrame = 36
    /\ (ret.op = "getNextBatch" /\ ret.arg = 1200 /\ ret.before = 2) =>
         /\ ret.value.messages = <<messages[3]>>
         /\ ret.value.nextBatchTimeMs = NULL
    /\ (ret.op = "getFrameCountUntil" /\ ret.arg = NULL) =>
         ret.value = totalFrames - currentFrame

\* the end of the scenario: all three events returned, the cursor at 36 and
\* getFrameCountUntil(null) called
C20_Witness ==
  /\ ScenarioEvents
  /\ ret.op = "getFrameCountUntil"
  /\ ret.arg = NULL
  /\ currentFrame = 36
  /\ totalFrames = 36
  /\ currentIndex = 3
  /\ delivered = messages
  /\ ret.value = 0


\* C21 (Spec): with no events, getNextBatch at any time returns the empty
\* batch and null and leaves the cursor, streamDurationMs and totalFrames are
\* 0, isDone() is true from the start, and the run writes the initial frame and
\* no other: the loop body is never entered.
C21_EmptyStream ==
  messages = <<>> =>
    /\ \A t \in CallTimes :
         \E r \in {GetNextBatchResult(messages, currentIndex, Ms(t))} :
           /\ r.messages = <<>>
           /\ r.nextBatchTimeMs = NULL
           /\ r.index = currentIndex
    /\ streamDurationMs(messages) = 0
    /\ totalFrames = 0
    /\ isDone(currentFrame, totalFrames)
    /\ pc \in {"capture0", "write0", "loop", "finish", "done"}
    /\ frameCount = (IF pc \in {"capture0", "write0"} THEN 0 ELSE 1)
    /\ holdCount = 0
    /\ delivered = <<>>

\* the run over no events returned
C21_Witness ==
  /\ messages = <<>>
  /\ pc = "done"
  /\ frameCount = 1
  /\ png.captured


\* C22 (ChatStateSpec): getState and getVisibleMessages change neither
\* visibleMessages nor totalLineCount; getVisibleMessages returns the entries
\* in order, getState returns them with totalLines = totalLineCount and
\* maxLines = MAX_VISIBLE_LINES, and a call repeated with no other call in
\* between returns the same.
C22_SnapshotIsPure ==
  /\ [](ret.op = "getVisibleMessages" => ret.value = visibleMessages)
  /\ [](ret.op = "getState" =>
          /\ ret.value.messages = visibleMessages
          /\ ret.value.totalLines = totalLineCount
          /\ ret.value.totalLines = SumLines(visibleMessages)
          /\ ret.value.maxLines = MAX_VISIBLE_LINES)
  /\ [][ret'.op \in {"getState", "getVisibleMessages"} =>
          UNCHANGED <<visibleMessages, totalLineCount>>]_vars
  /\ [][(ret.op \in {"getState", "getVisibleMessages"} /\ ret'.op = ret.op) =>
          ret'.value = ret.value]_vars

\* getState was called on a buffer of several entries, one of them flagged,
\* after an eviction
C22_Witness ==
  /\ ret.op = "getState"
  /\ Len(ret.value.messages) >= 2
  /\ \E i \in 1..Len(ret.value.messages) : ret.value.messages[i].deleted
  /\ Len(ingested) > Len(visibleMessages)
  /\ ret.value.totalLines > Len(visibleMessages)


\* C23 (Spec): frames are written only by the initial write and the hold, one
\* at a time; whenever a hold is being written the page and the captured frame
\* show the ChatState as it is, the batch of the iteration included; every
\* frame written is the capture of the ChatState as it is since the most
\* recent non-empty batch (or of the initial empty state); and the ChatState
\* changes only at the head of an iteration, never while a render, a capture or
\* a write is pending.
C23_ComputeThenEmit ==
  /\ [](pc = "write" =>
          /\ png.captured
          /\ page = visibleMessages
          /\ png.messages = visibleMessages
          /\ Len(batch) > 0 =>
               /\ Len(ingested) >= Len(batch)
               /\ \A i \in 1..Len(batch) :
                    ingested[Len(ingested) - Len(batch) + i].msg = batch[i])
  /\ [][frameCount' # frameCount =>
          /\ frameCount' = frameCount + 1
          /\ pc \in {"write0", "write"}
          /\ png.captured
          /\ png.messages = visibleMessages
          /\ UNCHANGED <<visibleMessages, totalLineCount, page, png,
                         currentIndex>>]_vars
  /\ [][visibleMessages' # visibleMessages =>
          pc = "loop" /\ pc' = "updateChat"]_vars

\* a frame of the hold that follows the second non-empty batch is written
C23_Witness ==
  /\ pc = "write"
  /\ holdWritten >= 1
  /\ Len(batch) > 0
  /\ Len(ingested) > Len(batch)
  /\ png.messages = visibleMessages
  /\ Last(png.messages).msg = Last(batch)


\* C24 (FailureSpec): a failing external call ends the run: the failure goes
\* to the catch of run and is thrown on, and nothing is retried; from the
\* failure on the batcher cursor, the ChatState and the scheduler cursor stay
\* as they were when the call was made.  After a failed write of a hold the
\* cursor is still the one before the hold, behind the frames written; after a
\* failed updateChat or capture the batch just ingested is in the ChatState.
C24_FailureIsFatalAndLeavesState ==
  /\ [][pc' \in {"failed", "thrown"} =>
          UNCHANGED <<messages, currentIndex, visibleMessages, totalLineCount,
                      totalFrames, currentFrame>>]_vars
  /\ [][pc = "failed" => pc' = "thrown"]_vars
  /\ [][pc # "thrown"]_vars
  /\ []((pc \in {"failed", "thrown"} /\ ret.op = "writeFrame" /\ ret.before >= 1) =>
          /\ currentFrame = ret.before
          /\ holdWritten < holdCount
          /\ frameCount = currentFrame + holdWritten)
  /\ []((/\ pc \in {"failed", "thrown"}
         /\ ret.op \in {"updateChat", "capturePngFrame"}
         /\ ret.before >= 1) =>
          /\ Len(batch) > 0
          /\ Len(batch) <= Len(ingested)
          /\ \A i \in 1..Len(batch) :
               ingested[Len(ingested) - Len(batch) + i].msg = batch[i]
          /\ Len(visibleMessages) > 0
          /\ Last(visibleMessages).msg = Last(batch)
          /\ totalLineCount = SumLines(visibleMessages))

\* a write failed in the middle of a hold and run has thrown
C24_Witness ==
  /\ pc = "thrown"
  /\ ret.op = "writeFrame"
  /\ holdWritten >= 1
  /\ holdCount > holdWritten
  /\ currentIndex > 0
  /\ Len(visibleMessages) > 0


\* C25 (LinesSpec): calculateMessageLines returns a whole number of lines, at
\* least 1, the same for the same message, that is the estimate rounded up (the
\* lines hold the content width, and one line less would not hold more than
\* it); and a longer name, one more badge, a longer text segment or one more
\* segment never gives fewer lines than before.
C25_LinesPositiveAndMonotonic ==
  ret.op = "calculateMessageLines" =>
    /\ ret.value \in Nat
    /\ ret.value >= 1
    /\ ret.value = calculateMessageLines(batch[1], DefaultContainerWidth)
    /\ ret.value * DefaultContainerWidth * 20 >= ContentWidth(batch[1])
    /\ ret.value > 1 =>
         (ret.value - 1) * DefaultContainerWidth * 20 <= ContentWidth(batch[1])
    /\ ret.value >= ret.before

\* a lengthened message whose content width is a whole number of container
\* widths
C25_Witness ==
  /\ ret.op = "calculateMessageLines"
  /\ ret.before > 1
  /\ ret.value > ret.before
  /\ ContentWidth(batch[1]) = (ret.value - 1) * DefaultContainerWidth * 20


\* C26 (Spec): the scheduler the pipeline builds has totalFrames =
\* ceil(streamDurationMs / frameDurationMs), streamDurationMs being the
\* timestamp of the last input event (0 for no events): when that timestamp is
\* positive, totalFrames frame durations reach it and totalFrames - 1 do not;
\* when it is 0, totalFrames is 0.
C26_TotalFramesIsCeiling ==
  LET last == IF Len(messages) = 0 THEN 0
              ELSE messages[Len(messages)].timestamp_ms
  IN  /\ streamDurationMs(messages) = last
      /\ totalFrames \in Nat
      /\ last > 0 =>
           /\ getCurrentTimeMs(totalFrames) >= Ms(last)
           /\ Ms(last) > getCurrentTimeMs(totalFrames - 1)
      /\ last = 0 => totalFrames = 0

\* the loop runs on a scheduler built for a stream that ends inside a frame
C26_Witness ==
  /\ pc = "loop"
  /\ Len(messages) > 1
  /\ messages[Len(messages)].timestamp_ms = 501
  /\ totalFrames = 16

\* C27 (Spec): after the initial capture and after every iteration of the
\* driving loop the encoder has written as many frames as the scheduler cursor
\* says; every hold writes exactly the count it then skips and skipFrames moves
\* the cursor by that whole count; and when the loop has ended on a stream of
\* at least one frame, the frames written are totalFrames.
C27_FramesWrittenEqualCursor ==
  /\ [](pc = "loop" => frameCount = currentFrame)
  /\ []((pc \in {"finish", "done"} /\ totalFrames >= 1) =>
          frameCount = totalFrames)
  /\ [][(pc = "write" /\ pc' = "loop") =>
          /\ holdWritten = holdCount
          /\ currentFrame' = currentFrame + holdCount]_vars

\* a run of several holds has ended with every frame of the stream written
C27_Witness ==
  /\ pc = "done"
  /\ totalFrames > 1
  /\ frameCount = totalFrames
  /\ currentFrame = totalFrames
  /\ Len(ingested) > 1


\* C28 (SchedulerSpec): in every state the operations of a FrameScheduler
\* reach, getFrameCountUntil, of null or of a timestamp, returns a count that
\* is not negative and not above the frames remaining.
C28_CountNonNegative ==
  ret.op = "getFrameCountUntil" =>
    /\ ret.value >= 0
    /\ ret.value <= totalFrames - currentFrame


\* C29 (TimingSpec): with a frame no longer than the batch window, only the
\* first getNextBatch of the driving loop can return an empty batch: every
\* later call follows a call that returned a nextBatchTimeMs, and a call that
\* follows one returns a batch that begins with the event of that timestamp,
\* the first event not yet delivered.
C29_OnlyFirstBatchEmpty ==
  [][(/\ 1000 <= Ms(BATCH_WINDOW_MS)
      /\ pc = "loop"
      /\ pc' \in {"updateChat", "write"}) =>
       /\ currentFrame > 1 => nextBatchTimeMs # NULL
       /\ nextBatchTimeMs # NULL =>
            /\ Len(batch') > 0
            /\ batch'[1] = messages[currentIndex + 1]
            /\ batch'[1].timestamp_ms = nextBatchTimeMs
       /\ Len(batch') = 0 => currentFrame = 1]_vars

\* the first call returned no event, and the call after the hold returned the
\* first events of the stream
C29_Witness ==
  /\ pc = "updateChat"
  /\ currentFrame > 1
  /\ Len(batch) > 0
  /\ delivered = batch
  /\ batch[1] = messages[1]

====
